---------------------------- MODULE Spec2Model ----------------------------
(***************************************************************************)
(* A model of wachawo/trading-bot: the sliding-window APIRateLimiter and   *)
(* the hourly MarketDataHourlyLoad job of src/src/market_data_hourly_load  *)
(* .py (refresh of the SQLite price table, batched current prices, RSI and *)
(* the oversold alert, the `schedule` loop of start()), and the retry loop  *)
(* of get_token_historical_price of src/src/main.py.                       *)
(*                                                                         *)
(* Five specifications share the variables:                                *)
(*   SpecRL    the rate limiter alone, its constructor arguments drawn     *)
(*             from small sets, time in seconds;                           *)
(*   Spec      the process from construction on: start(), the cycles of    *)
(*             run_market_check, the price table; time in hours;           *)
(*   SpecLive  Spec with weak fairness of the program's steps;             *)
(*   SpecCheck the check loop of run_market_check over every stored series *)
(*             of a few points and every current price;                    *)
(*   SpecAgent get_token_historical_price of src/src/main.py, the retry    *)
(*             loop of the agent graph's node; time in seconds.            *)
(***************************************************************************)
EXTENDS Integers, Sequences, FiniteSets, TLC

VARIABLES
    \* ---- APIRateLimiter (lines 13-33)
    max_calls,          \* self.max_calls
    period_seconds,     \* self.period_seconds
    call_timestamps,    \* self.call_timestamps: the deque, oldest first
    calls,              \* every wait() call so far: <<time of line 21, time of line 33, blocked>>
    \* ---- the clock read by time.time() and datetime.utcnow()
    now,
    \* ---- the environment and MarketDataHourlyLoad (lines 35-248)
    api_key,            \* os.getenv("COINGECKO_API_KEY_ACCOUNT") is set
    tokens_to_watch,    \* self.tokens_to_watch: the token ids, in dict order
    db,                 \* the committed rows of table prices, per token, in insertion order
    txn,                \* the rows inserted by the open transaction of update_historical_data
    jobs,               \* schedule.jobs: the next_run of each armed job
    pc,                 \* where the main thread is
    idx,                \* the position of the for loop the main thread is in
    inflight,           \* executions of run_market_check that have begun and not returned
    scheduled_run,      \* the execution in flight was started by schedule.run_pending()
    current_prices,     \* current_prices of run_market_check: token id -> usd price
    \* ---- what the cycle in flight has done
    fetched,            \* per token: the outcome of its history fetch, the timestamps of
                        \* prices_to_insert, the timestamp of the API's in-flight point
                        \* (kept until the check loop begins)
    refresh,            \* how update_historical_data ended (kept until the check loop begins)
    store_failed,       \* a sqlite3 operation raised during the cycle
    rsi_value,          \* per token: what calculate_rsi returned
    alerts,             \* the tokens send_telegram_message was called for
    api_calls,          \* the calls of rate_limiter.wait() and requests.get of the last
                        \* cycle begun, in the order they were made
    check_skipped,      \* the last cycle begun returned at line 210, before its check loop
    \* ---- get_token_historical_price of src/src/main.py (lines 61-104)
    agent_pc,           \* where the call is: "off", "for", "while", "hung", "returned"
    token_idx,          \* the position of `for token in token_watch_list`
    attempt,            \* attempt
    last_request_time,  \* last_request_time: <<>> for None, <<t>> for the time t
    token_historical_prices,    \* the local dict: token -> list of prices
    state,              \* the AgentState passed in and returned
    requests_log        \* every requests.get of the call: <<token, outcome, answer>>

limiterVars == <<max_calls, period_seconds, call_timestamps, calls>>
envVars == <<api_key, tokens_to_watch>>
storeVars == <<db, txn>>
threadVars == <<pc, idx, inflight, scheduled_run>>
cycleVars == <<fetched, refresh, store_failed>>
checkVars == <<current_prices, rsi_value, alerts>>
monitorVars ==
    <<envVars, storeVars, jobs, threadVars, cycleVars, checkVars, api_calls, check_skipped>>
agentVars ==
    <<agent_pc, token_idx, attempt, last_request_time, token_historical_prices, state,
      requests_log>>
vars == <<limiterVars, now, monitorVars, agentVars>>

-----------------------------------------------------------------------------
(* Bounds of the model.                                                    *)

\* wait() is called at most this many times in a behaviour of SpecRL
MaxWaits == 4
\* the largest max_calls a limiter is constructed with in SpecRL
MaxCallsArg == 2
\* the largest period_seconds a limiter is constructed with in SpecRL
MaxPeriodArg == 3
\* the clock of SpecRL stops at this second
MaxClock == 7
\* the most seconds wait() takes over what it has to (scheduling, oversleep)
MaxLag == 1
\* the hours of a day (24), scaled down
HoursPerDay == 2
\* the days of the initial load (59, line 128), scaled down
InitialDays == 2
\* the period of calculate_rsi (14, line 188), scaled down: the exact
\* quotient outgrows TLC's integers at 14
RsiPeriod == 2
\* the hours the clock of Spec runs past the first day
Horizon == 2
\* the most hours a remote request, with its wait(), takes
MaxLatency == 1
\* the usd prices are 1..MaxPrice
MaxPrice == 2
\* the most rows the table holds at the start of SpecCheck
MaxStored == 3

(* Constants of the program.                                               *)

\* schedule.every().hour, line 244: the unit of time of Spec
Hour == 1
\* int(p[0] / 1000), line 140
MsPerSecond == 1000
\* rsi_value < 30, line 232
OversoldRsi == 30
\* the seconds of an hour (schedule.every().hour, line 244; time.time() counts seconds)
SecondsPerHour == 3600

-----------------------------------------------------------------------------
(* APIRateLimiter                                                          *)

Max(a, b) == IF a >= b THEN a ELSE b

\* (variant) every timestamp is dropped, expired or not
Prune_All(q, limit) == <<>>

\* lines 24-25: popleft while the oldest timestamp is <= limit
RECURSIVE Prune(_, _)
Prune(q, limit) ==
    IF q # <<>> /\ Head(q) <= limit THEN Prune(Tail(q), limit) ELSE q

\* (variant) the window is taken for full one call too late
Blocked_Late(q) == Len(q) > max_calls

\* line 27: the window is full
Blocked(q) == Len(q) >= max_calls

\* (variant) the wait is counted from the oldest timestamp, the period forgotten
WaitTime_NoPeriod(q, current_time) == Head(q) - current_time

\* line 28: the time until the oldest timestamp leaves the window
WaitTime(q, current_time) == Head(q) - (current_time - period_seconds)

\* lines 27-31: the seconds wait() sleeps; time.sleep sleeps at least that long
SleepTime(q, current_time) ==
    IF Blocked(q) /\ WaitTime(q, current_time) > 0
    THEN WaitTime(q, current_time)
    ELSE 0

\* wait(), lines 19-33, as one step: lag is what passes between the two clock
\* reads beyond the sleep
Wait(lag) ==
    LET current_time == now
        pruned == Prune(call_timestamps, current_time - period_seconds)
        t == current_time + SleepTime(pruned, current_time) + lag
    IN  /\ Len(calls) < MaxWaits
        /\ t <= MaxClock
        /\ now' = t
        /\ call_timestamps' = Append(pruned, t)
        /\ calls' = Append(calls, <<current_time, t, Blocked(pruned)>>)
        /\ UNCHANGED <<max_calls, period_seconds, monitorVars, agentVars>>

\* time passes between two calls of wait()
Elapse ==
    /\ now < MaxClock
    /\ now' = now + 1
    /\ UNCHANGED <<limiterVars, monitorVars, agentVars>>

\* the recorded call timestamps, in call order
Recorded == [i \in 1..Len(calls) |-> calls[i][2]]

-----------------------------------------------------------------------------
(* The clock, the watch list and the remote price API of                   *)
(* MarketDataHourlyLoad. Time is counted in hours here: the hourly job,    *)
(* the days of update_historical_data. A stored timestamp is a whole       *)
(* number of these units (the source's seconds), an API timestamp is in    *)
(* thousandths of it (the source's milliseconds).                          *)

\* the ids of tokens.tokens (the module is imported at line 11)
TokenIds == {"A", "B"}

\* the usd prices
Prices == 1..MaxPrice

\* the first midnight of the model: late enough for every fetched day to have a
\* timestamp above 0, the "no row" value of get_last_timestamp
Start == InitialDays * HoursPerDay

\* the clock stops here
EndOfTime == Start + HoursPerDay - 1 + Horizon

\* line 140, int(p[0] / 1000): milliseconds to whole seconds
ToSeconds(ms) == ms \div MsPerSecond

\* line 182, p[0] * 1000
ToMillis(s) == s * MsPerSecond

\* line 123: (datetime.utcnow() - datetime.utcfromtimestamp(last_timestamp)).days
DaysSince(last_timestamp, t) == (t - last_timestamp) \div HoursPerDay

\* the usd price of a token at a time: it is the same for every request that
\* asks for that time, and changes from day to day
MarketPrice(ts) == 1 + ((ts \div HoursPerDay) % MaxPrice)

\* GET /coins/{id}/market_chart?days=n&interval=daily at time t (line 135): one
\* point for each of the last n midnights, oldest first, then the in-flight point
\* of the running day, stamped with the time of the request (frac: its
\* milliseconds)
market_chart(days, t, frac) ==
    LET last_midnight == (t \div HoursPerDay) * HoursPerDay
        at(i) == IF i <= days THEN last_midnight - (days - i) * HoursPerDay ELSE t
    IN  [i \in 1..(days + 1) |->
            <<ToMillis(at(i)) + (IF i <= days THEN 0 ELSE frac), MarketPrice(at(i))>>]

-----------------------------------------------------------------------------
(* The table prices (lines 83-89): a row is <<timestamp, price>> under its *)
(* token_id; token_name, token_symbol and datetime_utc are functions of    *)
(* the key and are left out.                                               *)

NoRows == [t \in TokenIds |-> <<>>]

HasKey(rows, ts) == \E i \in 1..Len(rows) : rows[i][1] = ts

\* (variant) a plain INSERT into a table without the primary key
InsertOrIgnore_Insert(rows, row) == Append(rows, row)

\* INSERT OR IGNORE under PRIMARY KEY (token_id, timestamp), lines 87 and 148
InsertOrIgnore(rows, row) ==
    IF HasKey(rows, row[1]) THEN rows ELSE Append(rows, row)

\* cursor.executemany(...), line 148: the rows one after the other
RECURSIVE executemany(_, _)
executemany(rows, new) ==
    IF new = <<>> THEN rows
    ELSE executemany(InsertOrIgnore(rows, Head(new)), Tail(new))

\* SELECT MAX(timestamp) ... ; return result if result else 0 (lines 100-102)
RECURSIVE MaxTimestamp(_)
MaxTimestamp(rows) ==
    IF rows = <<>> THEN 0 ELSE Max(Head(rows)[1], MaxTimestamp(Tail(rows)))

\* get_last_timestamp, lines 95-105: it reads through a connection of its own,
\* so it sees the committed rows; a sqlite3.Error gives 0
get_last_timestamp(token_id, db_error) ==
    IF db_error THEN 0 ELSE MaxTimestamp(db[token_id])

\* (variant) the rows newest first
OrderByTimestamp_Desc(rows) == [i \in 1..Len(rows) |-> rows[Len(rows) + 1 - i]]

\* ORDER BY timestamp ASC, line 180
RECURSIVE OrderByTimestamp(_)
OrderByTimestamp(rows) ==
    IF rows = <<>> THEN <<>>
    ELSE LET m == CHOOSE i \in 1..Len(rows) :
                    \A j \in 1..Len(rows) :
                        rows[i][1] < rows[j][1] \/ (rows[i][1] = rows[j][1] /\ i <= j)
             rest == [k \in 1..(Len(rows) - 1) |-> IF k < m THEN rows[k] ELSE rows[k + 1]]
         IN  <<rows[m]>> \o OrderByTimestamp(rest)

\* get_historical_prices_from_db, lines 175-185: [[timestamp * 1000, price], ...],
\* [] on a sqlite3.Error
get_historical_prices_from_db(token_id, db_error) ==
    IF db_error THEN <<>>
    ELSE LET rows == OrderByTimestamp(db[token_id])
         IN  [i \in 1..Len(rows) |-> <<ToMillis(rows[i][1]), rows[i][2]>>]

\* (variant) the table is emptied and holds the rows of this refresh only
Committed_Replace == txn

\* (variant) only the rows of the first watched token are committed
Committed_Partial ==
    [t \in TokenIds |-> IF t = tokens_to_watch[1] THEN db[t] \o txn[t] ELSE db[t]]

\* conn.commit(), line 152: the rows of the transaction join the table
Committed == [t \in TokenIds |-> db[t] \o txn[t]]

-----------------------------------------------------------------------------
(* calculate_rsi (lines 187-200). pandas computes in floats; the model     *)
(* computes the same quotient exactly and rounds it to hundredths. A       *)
(* result is <<"none", 0>> (None), <<"nan", 0>> (0/0) or <<"num", h>>, h   *)
(* the RSI in hundredths.                                                  *)

RsiNone == <<"none", 0>>
RsiNaN == <<"nan", 0>>
RsiNum(h) == <<"num", h>>

RECURSIVE Pow(_, _)
Pow(b, e) == IF e = 0 THEN 1 ELSE b * Pow(b, e - 1)

\* line 194, df['price'].diff(): NaN at the first index
\* line 195, delta.where(delta > 0, 0): 0 where the delta is NaN or not positive
Gains(prices) ==
    [t \in 1..Len(prices) |->
        IF t = 1 THEN 0 ELSE Max(prices[t][2] - prices[t - 1][2], 0)]

\* line 196, -delta.where(delta < 0, 0)
Losses(prices) ==
    [t \in 1..Len(prices) |->
        IF t = 1 THEN 0 ELSE Max(prices[t - 1][2] - prices[t][2], 0)]

\* .ewm(alpha=1/period, adjust=False).mean() at index t, times period^(t-1):
\* y[1] = x[1], y[t] = (1 - 1/period) * y[t-1] + x[t] / period
RECURSIVE Ewm(_, _, _)
Ewm(x, t, period) ==
    IF t = 1 THEN x[1]
    ELSE (period - 1) * Ewm(x, t - 1, period) + Pow(period, t - 2) * x[t]

\* round(., 2) of num/den, in hundredths: to the nearest, a tie to the even one
Round2(num, den) ==
    LET q == (100 * num) \div den
        r == (100 * num) % den
    IN  IF 2 * r < den THEN q
        ELSE IF 2 * r > den THEN q + 1
        ELSE IF q % 2 = 0 THEN q ELSE q + 1

\* (variant) the series is taken for long enough one point too early
calculate_rsi_Short(prices, period) ==
    IF Len(prices) < period THEN RsiNone
    ELSE LET gain == Ewm(Gains(prices), Len(prices), period)
             loss == Ewm(Losses(prices), Len(prices), period)
         IN  IF loss = 0 THEN (IF gain = 0 THEN RsiNaN ELSE RsiNum(100 * 100))
             ELSE RsiNum(Round2(100 * gain, gain + loss))

calculate_rsi(prices, period) ==
    IF Len(prices) < period + 1 THEN RsiNone
    ELSE LET gain == Ewm(Gains(prices), Len(prices), period)
             loss == Ewm(Losses(prices), Len(prices), period)
         IN  \* rs = gain / loss is inf for loss = 0 < gain, NaN for 0 / 0
             IF loss = 0 THEN (IF gain = 0 THEN RsiNaN ELSE RsiNum(100 * 100))
             \* 100 - 100 / (1 + gain / loss)
             ELSE RsiNum(Round2(100 * gain, gain + loss))

\* (variant) rsi_value <= 30
Oversold_AtMost(rsi) == rsi[1] = "num" /\ rsi[2] <= OversoldRsi * 100

\* lines 230-232: rsi_value is not None and rsi_value < 30 (a NaN is below nothing)
Oversold(rsi) == rsi[1] = "num" /\ rsi[2] < OversoldRsi * 100

-----------------------------------------------------------------------------
(* The remote requests of a cycle and their gate.                          *)

\* time.time() where the clock counts hours
ClockSeconds(t) == t * SecondsPerHour

\* self.rate_limiter.wait() called at hour t (lines 130 and 167): the deque after it.
\* A sleep of wait() is shorter than the hour the clock counts in
WaitAt(q, t) ==
    LET current_time == ClockSeconds(t)
        pruned == Prune(q, current_time - period_seconds)
    IN  Append(pruned, current_time + SleepTime(pruned, current_time))

\* (variant) the request is sent without asking the limiter
Request_NoWait == <<"get">>

\* lines 130-135: self.rate_limiter.wait(), then requests.get(.../market_chart)
HistoryRequest == <<"wait", "get">>

\* lines 167-168: self.rate_limiter.wait(), then requests.get(.../simple/price)
CurrentPriceRequest == <<"wait", "get">>

-----------------------------------------------------------------------------
(* run_market_check and the schedule loop, step by step.                   *)

NoFetch == [t \in TokenIds |-> <<"none", {}, 0>>]
NoRsi == [t \in TokenIds |-> <<"unset", 0>>]

\* the state of the monitor where it is not modelled (SpecRL)
NoMonitor ==
    /\ api_key = TRUE
    /\ tokens_to_watch = <<>>
    /\ db = NoRows /\ txn = NoRows
    /\ jobs = <<>>
    /\ pc = "off" /\ idx = 0 /\ inflight = 0 /\ scheduled_run = FALSE
    /\ current_prices = <<>>
    /\ fetched = NoFetch /\ refresh = "none" /\ store_failed = FALSE
    /\ rsi_value = NoRsi /\ alerts = {}
    /\ api_calls = <<>>
    /\ check_skipped = FALSE

\* run_market_check entered (line 202), update_historical_data up to its loop
\* (lines 107-117): sqlite3.connect may raise, a missing key raises ValueError;
\* both are caught at line 154
BeginCycle(by_schedule, connect_error) ==
    /\ inflight' = inflight + 1
    /\ scheduled_run' = by_schedule
    /\ fetched' = NoFetch
    /\ rsi_value' = NoRsi /\ alerts' = {} /\ current_prices' = <<>>
    /\ txn' = NoRows
    /\ api_calls' = <<>>
    /\ check_skipped' = FALSE
    /\ IF connect_error
       THEN pc' = "current" /\ idx' = 0 /\ refresh' = "db_error" /\ store_failed' = TRUE
       ELSE IF ~api_key
       THEN pc' = "current" /\ idx' = 0 /\ refresh' = "no_key" /\ store_failed' = FALSE
       ELSE pc' = "update" /\ idx' = 1 /\ refresh' = "running" /\ store_failed' = FALSE
    /\ UNCHANGED <<limiterVars, now, envVars, db, agentVars>>

\* start(), lines 241-245: the job is armed, then run_market_check is called
StartProcess ==
    /\ pc = "constructed"
    /\ jobs' = <<now + Hour>>
    /\ \E connect_error \in BOOLEAN : BeginCycle(FALSE, connect_error)

\* the loop of start(), lines 246-248: schedule.run_pending() runs the job that
\* is due; the main thread calls it between two runs of the job, never within one
\* (variant) a timer thread runs the job as soon as it is due
MayRunPending_Timer == pc \in {"idle", "update", "current", "check", "hung"}

MayRunPending == pc = "idle"

RunPending ==
    /\ MayRunPending
    /\ jobs # <<>> /\ now >= jobs[1]
    /\ UNCHANGED jobs
    /\ \E connect_error \in BOOLEAN : BeginCycle(TRUE, connect_error)

\* the loop of start() with no job due: time.sleep(1)
IdleSleep ==
    /\ pc = "idle"
    /\ ~(jobs # <<>> /\ now >= jobs[1])
    /\ now < EndOfTime
    /\ now' = now + 1
    /\ UNCHANGED <<limiterVars, monitorVars, agentVars>>

\* run_market_check returns at time t: after a scheduled run, schedule's Job.run sets
\* last_run and next_run = now + 1 hour; the call of line 245 leaves the job alone.
\* (api_calls, the log of the calls, stays until the next cycle begins.)
Return(t) ==
    /\ pc' = "idle" /\ idx' = 0
    /\ inflight' = inflight - 1
    /\ jobs' = IF scheduled_run THEN <<t + Hour>> ELSE jobs
    /\ UNCHANGED scheduled_run
    \* the locals of the call are gone; what the cycle did is forgotten with them
    /\ current_prices' = <<>> /\ rsi_value' = NoRsi /\ alerts' = {}
    /\ fetched' = NoFetch /\ refresh' = "none" /\ store_failed' = FALSE

\* one iteration of the loop of update_historical_data, lines 118-151.
\*   lt_error: get_last_timestamp met a sqlite3.Error; outcome: what requests.get
\*   did ("ok": 200, "status": another status, "error": it raised, "hang": it never
\*   returned); lag: the time wait() and the request took; frac: the milliseconds
\*   of the answer's last point
RefreshToken(lt_error, outcome, lag, insert_error, frac) ==
    /\ pc = "update" /\ idx <= Len(tokens_to_watch)
    /\ LET token_id == tokens_to_watch[idx]
           last_timestamp == get_last_timestamp(token_id, lt_error)
           days_to_fetch == IF last_timestamp > 0
                            THEN DaysSince(last_timestamp, now)
                            ELSE InitialDays
       IN  IF last_timestamp > 0 /\ days_to_fetch <= 0
           THEN \* lines 124-126: up to date, continue
                /\ outcome = "ok" /\ lag = 0 /\ ~insert_error /\ frac = 0
                /\ idx' = idx + 1
                /\ fetched' = [fetched EXCEPT ![token_id] = <<"uptodate", {}, 0>>]
                /\ store_failed' = (store_failed \/ lt_error)
                /\ UNCHANGED <<limiterVars, now, envVars, storeVars, jobs, pc, inflight,
                               scheduled_run, refresh, checkVars, api_calls, check_skipped, agentVars>>
           ELSE /\ now + lag <= EndOfTime
                \* lines 130-135: the gate, then the request
                /\ call_timestamps' = WaitAt(call_timestamps, now)
                /\ api_calls' = api_calls \o HistoryRequest
                /\ now' = now + lag
                /\ CASE outcome = "hang" ->
                        /\ lag = 0 /\ ~insert_error /\ frac = 0
                        /\ pc' = "hung"
                        /\ fetched' = [fetched EXCEPT ![token_id] = <<"hang", {}, 0>>]
                        /\ store_failed' = (store_failed \/ lt_error)
                        /\ UNCHANGED <<storeVars, idx, refresh>>
                     [] outcome = "error" ->
                        \* the exception leaves the with block, which rolls back
                        /\ ~insert_error /\ frac = 0
                        /\ pc' = "current" /\ idx' = 0
                        /\ txn' = NoRows
                        /\ refresh' = "net_error"
                        /\ fetched' = [fetched EXCEPT ![token_id] = <<"error", {}, 0>>]
                        /\ store_failed' = (store_failed \/ lt_error)
                        /\ UNCHANGED db
                     [] outcome = "status" ->
                        /\ ~insert_error /\ frac = 0
                        /\ idx' = idx + 1
                        /\ fetched' = [fetched EXCEPT ![token_id] = <<"status", {}, 0>>]
                        /\ store_failed' = (store_failed \/ lt_error)
                        /\ UNCHANGED <<storeVars, pc, refresh>>
                     [] outcome = "ok" ->
                          LET prices == market_chart(days_to_fetch, now', frac)
                              historical_prices ==
                                  SelectSeq(prices, LAMBDA p : ToSeconds(p[1]) > last_timestamp)
                              prices_to_insert ==
                                  [i \in 1..Len(historical_prices) |->
                                      <<ToSeconds(historical_prices[i][1]), historical_prices[i][2]>>]
                              table == db[token_id] \o txn[token_id]
                              after == executemany(table, prices_to_insert)
                              result == <<"ok",
                                          {prices_to_insert[i][1] : i \in 1..Len(prices_to_insert)},
                                          ToSeconds(prices[Len(prices)][1])>>
                          IN  IF insert_error /\ prices_to_insert # <<>>
                              THEN \* executemany raised: rolled back, caught at line 154
                                   /\ pc' = "current" /\ idx' = 0
                                   /\ txn' = NoRows
                                   /\ refresh' = "db_error"
                                   /\ store_failed' = TRUE
                                   /\ fetched' = [fetched EXCEPT ![token_id] = result]
                                   /\ UNCHANGED db
                              ELSE /\ ~insert_error
                                   /\ idx' = idx + 1
                                   /\ txn' = [txn EXCEPT ![token_id] =
                                                 SubSeq(after, Len(db[token_id]) + 1, Len(after))]
                                   /\ fetched' = [fetched EXCEPT ![token_id] = result]
                                   /\ store_failed' = (store_failed \/ lt_error)
                                   /\ UNCHANGED <<db, pc, refresh>>
                /\ UNCHANGED <<max_calls, period_seconds, calls>>
                /\ UNCHANGED <<envVars, jobs, inflight, scheduled_run, checkVars, check_skipped, agentVars>>

\* the loop is over: conn.commit() (line 152), which may raise
Commit(commit_error) ==
    /\ pc = "update" /\ idx > Len(tokens_to_watch)
    /\ pc' = "current" /\ idx' = 0
    /\ txn' = NoRows
    /\ IF commit_error
       THEN db' = db /\ refresh' = "db_error" /\ store_failed' = TRUE
       ELSE db' = Committed /\ refresh' = "complete" /\ UNCHANGED store_failed
    /\ UNCHANGED <<limiterVars, now, envVars, jobs, inflight, scheduled_run,
                   fetched, checkVars, api_calls, check_skipped, agentVars>>

\* (variant) the check loop is entered with whatever mapping came back, empty or not
FetchCurrent_NoSkip(outcome, lag, answer) ==
    /\ pc = "current"
    /\ now + lag <= EndOfTime
    /\ call_timestamps' = WaitAt(call_timestamps, now)
    /\ api_calls' = api_calls \o CurrentPriceRequest
    /\ now' = now + lag
    /\ outcome \in {"ok", "error"}
    /\ outcome = "error" => answer = <<>>
    /\ current_prices' = answer
    /\ pc' = "check" /\ idx' = 1
    /\ fetched' = NoFetch /\ refresh' = "none"
    /\ UNCHANGED <<jobs, inflight, scheduled_run, store_failed, rsi_value, alerts, check_skipped>>
    /\ UNCHANGED <<max_calls, period_seconds, calls, envVars, storeVars, agentVars>>

\* get_all_current_prices (lines 157-173) and lines 207-210. answer: the mapping
\* of a 200 response; a RequestException gives {}
FetchCurrent(outcome, lag, answer) ==
    /\ pc = "current"
    /\ now + lag <= EndOfTime
    \* lines 167-168: the gate, then the request
    /\ call_timestamps' = WaitAt(call_timestamps, now)
    /\ api_calls' = api_calls \o CurrentPriceRequest
    /\ now' = now + lag
    /\ CASE outcome = "hang" ->
            /\ lag = 0 /\ answer = <<>>
            /\ pc' = "hung"
            /\ UNCHANGED <<jobs, idx, inflight, scheduled_run, current_prices>>
            /\ UNCHANGED <<cycleVars, rsi_value, alerts, check_skipped>>
         [] outcome = "error" ->
            \* lines 171-173 give {}, lines 208-210 return
            /\ answer = <<>>
            /\ Return(now')
            /\ check_skipped' = TRUE
         [] outcome = "ok" ->
            /\ IF answer = <<>>
               THEN \* lines 208-210
                    /\ Return(now')
                    /\ check_skipped' = TRUE
               ELSE /\ current_prices' = answer
                    /\ pc' = "check" /\ idx' = 1
                    /\ fetched' = NoFetch /\ refresh' = "none"
                    /\ UNCHANGED <<jobs, inflight, scheduled_run, store_failed, rsi_value, alerts,
                                   check_skipped>>
    /\ UNCHANGED <<max_calls, period_seconds, calls, envVars, storeVars, agentVars>>

\* one iteration of the loop of run_market_check, lines 212-237
CheckToken(db_error) ==
    /\ pc = "check" /\ idx <= Len(tokens_to_watch)
    /\ LET token_id == tokens_to_watch[idx]
           historical_prices == get_historical_prices_from_db(token_id, db_error)
       IN  /\ idx' = idx + 1
           /\ store_failed' = (store_failed \/ db_error)
           /\ IF historical_prices = <<>> \/ token_id \notin DOMAIN current_prices
              THEN UNCHANGED <<rsi_value, alerts>>
              ELSE LET current_price == <<<<ToMillis(now), current_prices[token_id]>>>>
                       all_prices == historical_prices \o current_price
                       rsi == calculate_rsi(all_prices, RsiPeriod)
                   IN  /\ rsi_value' = [rsi_value EXCEPT ![token_id] = rsi]
                       /\ alerts' = IF Oversold(rsi) THEN alerts \cup {token_id} ELSE alerts
    /\ UNCHANGED <<limiterVars, now, envVars, storeVars, jobs, pc, inflight, scheduled_run,
                   current_prices, fetched, refresh, api_calls, check_skipped, agentVars>>

\* (variant) at the end of the loop the current prices are written to the table
FinishCheck_Persist ==
    /\ pc = "check" /\ idx > Len(tokens_to_watch)
    /\ Return(now)
    /\ db' = [t \in TokenIds |->
                IF t \in DOMAIN current_prices
                THEN InsertOrIgnore(db[t], <<now, current_prices[t]>>)
                ELSE db[t]]
    /\ UNCHANGED <<limiterVars, now, envVars, txn, api_calls, check_skipped, agentVars>>

\* line 239: the loop is over, run_market_check returns
FinishCheck ==
    /\ pc = "check" /\ idx > Len(tokens_to_watch)
    /\ Return(now)
    /\ UNCHANGED <<limiterVars, now, envVars, storeVars, api_calls, check_skipped, agentVars>>

\* a request that never returns: the thread stays in requests.get, time passes
Hung ==
    /\ pc = "hung"
    /\ now < EndOfTime
    /\ now' = now + 1
    /\ UNCHANGED <<limiterVars, monitorVars, agentVars>>

-----------------------------------------------------------------------------
(* get_token_historical_price of src/src/main.py, the node of the agent    *)
(* graph: one request per watched token, paced and retried. Time is in     *)
(* seconds.                                                                *)

\* lines 16-59
token_watch_list == <<"bitcoin", "ethereum", "solana">>

\* lines 72-74
min_interval == 2
retries == 2
retry_delay == 2

\* the lists the "prices" key of a 200 answer may hold; data.get("prices", [])
\* gives [] when the key is missing (line 90)
Charts == {<<>>, <<1>>, <<2>>}

\* line 116: AgentState(message="start", token_historical_prices={})
initial_state == [message |-> "start", token_historical_prices |-> <<>>]

\* the call where it is not modelled
NoAgent ==
    /\ agent_pc = "off" /\ token_idx = 0 /\ attempt = 0
    /\ last_request_time = <<>>
    /\ token_historical_prices = <<>>
    /\ state = initial_state
    /\ requests_log = <<>>

\* token_historical_prices[token] = value (lines 90, 99)
SetItem(d, token, value) ==
    [k \in DOMAIN d \cup {token} |-> IF k = token THEN value ELSE d[k]]

\* lines 78-81: the sleep that keeps min_interval between two tokens
PacingSleep(last, t) ==
    IF last # <<>> /\ t - last[1] < min_interval
    THEN min_interval - (t - last[1])
    ELSE 0

\* (variant) a failed attempt is always followed by the delay, never by the
\* empty entry
RetryLeft_Always(a) == a <= retries

\* line 96: a failed attempt is followed by another
RetryLeft(a) == a < retries

\* the for loop takes its next token, lines 77-83
NextToken ==
    /\ agent_pc = "for" /\ token_idx <= Len(token_watch_list)
    /\ now' = now + PacingSleep(last_request_time, now)
    /\ attempt' = 0
    /\ agent_pc' = "while"
    /\ UNCHANGED <<token_idx, last_request_time, token_historical_prices, state, requests_log>>
    /\ UNCHANGED <<limiterVars, monitorVars>>

\* one iteration of the while loop, lines 84-100, and line 101 when the loop is
\* left. outcome: what requests.get did ("ok": 200 and a JSON object, "status":
\* raise_for_status raised, "error": requests.get raised a RequestException,
\* "hang": it never returned, no timeout being passed at line 87); lag: the
\* seconds the request took; answer: the list under "prices"
Request(outcome, lag, answer) ==
    /\ agent_pc = "while" /\ attempt <= retries
    /\ LET token == token_watch_list[token_idx]
       IN  /\ requests_log' = Append(requests_log, <<token, outcome, answer>>)
           /\ CASE outcome = "hang" ->
                    /\ lag = 0 /\ answer = <<>>
                    /\ agent_pc' = "hung"
                    /\ UNCHANGED <<now, token_idx, attempt, last_request_time,
                                   token_historical_prices>>
                 [] outcome = "ok" ->
                    \* lines 90-93, then line 101
                    /\ token_historical_prices' = SetItem(token_historical_prices, token, answer)
                    /\ now' = now + lag
                    /\ last_request_time' = <<now'>>
                    /\ token_idx' = token_idx + 1
                    /\ agent_pc' = "for"
                    /\ UNCHANGED attempt
                 [] outcome \in {"status", "error"} ->
                    /\ answer = <<>>
                    /\ attempt' = attempt + 1
                    /\ IF RetryLeft(attempt)
                       THEN \* line 97, then the loop goes on
                            /\ now' = now + lag + retry_delay
                            /\ UNCHANGED <<token_idx, last_request_time,
                                           token_historical_prices, agent_pc>>
                       ELSE \* line 99, then attempt > retries ends the loop; line 101
                            /\ token_historical_prices' =
                                   SetItem(token_historical_prices, token, <<>>)
                            /\ now' = now + lag
                            /\ last_request_time' = <<now'>>
                            /\ token_idx' = token_idx + 1
                            /\ agent_pc' = "for"
    /\ UNCHANGED state
    /\ UNCHANGED <<limiterVars, monitorVars>>

\* the for loop is over, lines 102-104
ReturnState ==
    /\ agent_pc = "for" /\ token_idx > Len(token_watch_list)
    /\ state' = [message |-> "Fetched historical prices for tokens.",
                 token_historical_prices |-> token_historical_prices]
    /\ agent_pc' = "returned"
    /\ UNCHANGED <<token_idx, attempt, last_request_time, token_historical_prices,
                   requests_log>>
    /\ UNCHANGED <<limiterVars, now, monitorVars>>

-----------------------------------------------------------------------------
(* The specifications.                                                     *)

\* APIRateLimiter(max_calls, period_seconds), lines 14-17
InitRL ==
    /\ max_calls \in 1..MaxCallsArg
    /\ period_seconds \in 1..MaxPeriodArg
    /\ call_timestamps = <<>>
    /\ calls = <<>>
    /\ now = 0
    /\ NoMonitor
    /\ NoAgent

NextRL ==
    \/ \E lag \in 0..MaxLag : Wait(lag)
    \/ Elapse

SpecRL == InitRL /\ [][NextRL]_vars

\* the orders the watch list may have
WatchLists == {<<"A", "B">>, <<"B", "A">>}

\* MarketDataHourlyLoad(), lines 62-69, on a new database file, at the start of a
\* day; the key may be missing from the environment
Init ==
    /\ max_calls = 25 /\ period_seconds = 60
    /\ call_timestamps = <<>> /\ calls = <<>>
    /\ now = Start
    /\ api_key \in BOOLEAN
    /\ tokens_to_watch \in WatchLists
    /\ db = NoRows /\ txn = NoRows
    /\ jobs = <<>>
    /\ pc = "constructed" /\ idx = 0 /\ inflight = 0 /\ scheduled_run = FALSE
    /\ current_prices = <<>>
    /\ fetched = NoFetch /\ refresh = "none" /\ store_failed = FALSE
    /\ rsi_value = NoRsi /\ alerts = {}
    /\ api_calls = <<>>
    /\ check_skipped = FALSE
    /\ NoAgent

\* the mappings /simple/price may answer with: any of the tokens, each with a price
Answers == UNION {[S -> Prices] : S \in SUBSET TokenIds}

Next ==
    \/ StartProcess
    \/ RunPending
    \/ IdleSleep
    \/ \E lt_error \in BOOLEAN, outcome \in {"ok", "status", "error", "hang"},
          lag \in 0..MaxLatency, insert_error \in BOOLEAN, frac \in {0, 500} :
            RefreshToken(lt_error, outcome, lag, insert_error, frac)
    \/ \E commit_error \in BOOLEAN : Commit(commit_error)
    \/ \E outcome \in {"ok", "error", "hang"}, lag \in 0..MaxLatency, answer \in Answers :
            FetchCurrent(outcome, lag, answer)
    \* the read of the stored series fails, or succeeds
    \/ CheckToken(TRUE)
    \/ CheckToken(FALSE)
    \/ FinishCheck
    \/ Hung

Spec == Init /\ [][Next]_vars

\* the main thread takes its next step whenever it has one; nothing makes a
\* request that hangs return. (Without the "hang" outcomes of Next,
\* C8_SchedulerLiveness holds under SpecLive.)
SpecLive == Spec /\ WF_vars(Next)

\* The check phase alone: run_market_check at line 212 with one watched token,
\* over every stored daily series of up to MaxStored points and every current price
CheckPrices == {1, 3, 4, 101, 468}

CheckSeries ==
    UNION {[1..n -> CheckPrices] : n \in 0..MaxStored}

InitCheck ==
    /\ max_calls = 25 /\ period_seconds = 60
    /\ call_timestamps = <<>> /\ calls = <<>>
    /\ now = EndOfTime
    /\ api_key = TRUE
    /\ tokens_to_watch = <<"A">>
    /\ \E s \in CheckSeries :
         db = [t \in TokenIds |->
                 IF t = "A" THEN [i \in 1..Len(s) |-> <<i * HoursPerDay, s[i]>>] ELSE <<>>]
    /\ txn = NoRows
    /\ jobs = <<now + Hour>>
    /\ pc = "check" /\ idx = 1 /\ inflight = 1 /\ scheduled_run = FALSE
    /\ current_prices \in [{"A"} -> CheckPrices]
    /\ fetched = NoFetch /\ refresh = "none" /\ store_failed = FALSE
    /\ rsi_value = NoRsi /\ alerts = {}
    /\ api_calls = <<>>
    /\ check_skipped = FALSE
    /\ NoAgent

NextCheck ==
    \/ \E db_error \in BOOLEAN : CheckToken(db_error)
    \/ FinishCheck

SpecCheck == InitCheck /\ [][NextCheck]_vars

\* get_token_historical_price called on the initial state of the agent (lines
\* 61-75 done, the for loop about to begin); the monitor is not running
InitAgent ==
    /\ max_calls = 25 /\ period_seconds = 60
    /\ call_timestamps = <<>> /\ calls = <<>>
    /\ now = 0
    /\ NoMonitor
    /\ agent_pc = "for" /\ token_idx = 1 /\ attempt = 0
    /\ last_request_time = <<>>
    /\ token_historical_prices = <<>>
    /\ state = initial_state
    /\ requests_log = <<>>

NextAgent ==
    \/ NextToken
    \/ \E outcome \in {"ok", "status", "error", "hang"}, lag \in 0..MaxLag, answer \in Charts :
            Request(outcome, lag, answer)
    \/ ReturnState

SpecAgent == InitAgent /\ [][NextAgent]_vars

-----------------------------------------------------------------------------
(* C1: rate-limit safety. For every recorded call timestamp t, at most     *)
(* max_calls recorded call timestamps lie in the window                    *)
(* (t - period_seconds, t].                                                *)
InWindow(t) ==
    {i \in 1..Len(calls) : calls[i][2] > t - period_seconds /\ calls[i][2] <= t}

C1_RateLimitSafety ==
    \A k \in 1..Len(calls) : Cardinality(InWindow(calls[k][2])) <= max_calls

\* a call that found the window full has returned, and the window of its
\* timestamp holds exactly max_calls calls
C1_Witness ==
    \E k \in 1..Len(calls) :
        /\ calls[k][3]
        /\ Cardinality(InWindow(calls[k][2])) = max_calls

-----------------------------------------------------------------------------
(* C2: partial failure isolation. When the refresh phase is over and no    *)
(* store operation failed, if the history fetch of token a failed (a       *)
(* status other than 200, or requests.get raised) and the one of token b   *)
(* succeeded, every point fetched for b is a row of the table.             *)
C2_PartialFailureIsolation ==
    (pc = "current" /\ ~store_failed) =>
        \A a, b \in TokenIds :
            (fetched[a][1] \in {"status", "error"} /\ fetched[b][1] = "ok") =>
                \A ts \in fetched[b][2] : HasKey(db[b], ts)

-----------------------------------------------------------------------------
(* C3: non-overlapping cycles. At most one execution of run_market_check   *)
(* is in flight, and one is in flight exactly while the main thread is     *)
(* inside it.                                                              *)
C3_NonOverlap ==
    /\ inflight \in {0, 1}
    /\ inflight = 1 <=> pc \in {"update", "current", "check", "hung"}

\* a scheduled cycle has just begun, later than its trigger was due: the
\* trigger came due while the cycle before was running
C3_Witness ==
    /\ scheduled_run /\ inflight = 1
    /\ pc = "update" /\ idx = 1
    /\ now > jobs[1]

-----------------------------------------------------------------------------
(* C4: a missing credential is fatal at startup. With the API key absent   *)
(* no hourly job is armed and the check loop of no cycle runs.             *)
C4_MissingCredentialFatal ==
    ~api_key => (jobs = <<>> /\ pc # "check")

-----------------------------------------------------------------------------
(* C5: idempotent ingestion. The table, with the rows of the open          *)
(* transaction, holds at most one row per (token_id, timestamp), and       *)
(* inserting a stored timestamp again, with any price, leaves it as it is. *)
C5_IdempotentIngestion ==
    \A t \in TokenIds :
        LET table == db[t] \o txn[t]
        IN  /\ \A i, j \in 1..Len(table) : table[i][1] = table[j][1] => i = j
            /\ \A i \in 1..Len(table), p \in Prices :
                   InsertOrIgnore(table, <<table[i][1], p>>) = table
            /\ executemany(table, table) = table

\* a refresh is complete in which the API's in-flight point fell on the second
\* of a daily point of the same answer: two points with one key were inserted,
\* one row is stored
C5_Witness ==
    /\ refresh = "complete"
    /\ \E t \in TokenIds :
         /\ fetched[t][1] = "ok"
         /\ fetched[t][3] % HoursPerDay = 0
         /\ fetched[t][3] \in fetched[t][2]
         /\ Cardinality({i \in 1..Len(db[t]) : db[t][i][1] = fetched[t][3]}) = 1

-----------------------------------------------------------------------------
(* C6: the store after a refresh. After a completed refresh phase every    *)
(* watched token's rows are a daily series: no two rows on one day, no day *)
(* missing between the first and the last, and no row stamped with the     *)
(* time of the in-flight point the API returned in this refresh or later   *)
(* (a daily point of that very second apart).                              *)
DayOf(ts) == ts \div HoursPerDay

C6_PostRefreshSeries ==
    refresh = "complete" =>
        \A t \in TokenIds :
            LET rows == db[t]
                days == {DayOf(rows[i][1]) : i \in 1..Len(rows)}
            IN  /\ \A i, j \in 1..Len(rows) :
                       DayOf(rows[i][1]) = DayOf(rows[j][1]) => i = j
                /\ \A d1, d2 \in days : \A d \in d1..d2 : d \in days
                /\ fetched[t][1] = "ok" =>
                       \A i \in 1..Len(rows) :
                           \/ rows[i][1] < fetched[t][3]
                           \/ rows[i][1] = fetched[t][3] /\ fetched[t][3] % HoursPerDay = 0

-----------------------------------------------------------------------------
(* C7: the alert threshold. In the check loop an alert is sent for a token *)
(* if and only if calculate_rsi returned a number for it and the number is *)
(* below 30.00.                                                            *)
C7_AlertThreshold ==
    \A t \in TokenIds :
        t \in alerts <=> (rsi_value[t][1] = "num" /\ rsi_value[t][2] < 3000)

\* a token whose RSI is exactly 30.00 has been checked and no alert was sent
C7_Witness ==
    \E t \in TokenIds : rsi_value[t] = <<"num", 3000>> /\ t \notin alerts

-----------------------------------------------------------------------------
(* C8: scheduler liveness. run_market_check begins once the process has    *)
(* started, every execution of it returns, and a job that is due and not   *)
(* being run leads to a scheduled execution.                               *)
TriggerPending ==
    /\ jobs # <<>> /\ now >= jobs[1]
    /\ ~(scheduled_run /\ inflight > 0)

C8_SchedulerLiveness ==
    /\ (pc = "constructed") ~> (inflight > 0)
    /\ (inflight > 0) ~> (inflight = 0)
    /\ TriggerPending ~> (scheduled_run /\ inflight > 0)

-----------------------------------------------------------------------------
(* C9: persistence failure handling. A cycle in which a store operation    *)
(* has failed is aborted: it sends no alert. (The key is present: the      *)
(* missing key is C4's case.)                                              *)
C9_PersistenceFailureAborts ==
    (api_key /\ store_failed) => alerts = {}

-----------------------------------------------------------------------------
(* C10: the burst behaviour of the rate limiter. A wait() called when      *)
(* max_calls calls were recorded within the last period_seconds returns no *)
(* earlier than period_seconds after the oldest of them; and from the      *)
(* start of a wait() to the return of the (2 * max_calls - 1)-th call      *)
(* after it at least period_seconds pass.                                  *)
RecentBefore(k) ==
    {i \in 1..(k - 1) : calls[i][2] > calls[k][1] - period_seconds}

C10_BurstBehaviour ==
    /\ \A k \in 1..Len(calls) :
           Cardinality(RecentBefore(k)) >= max_calls =>
               \A i \in RecentBefore(k) :
                   (\A j \in RecentBefore(k) : calls[i][2] <= calls[j][2]) =>
                       calls[k][2] >= calls[i][2] + period_seconds
    /\ \A i \in 1..Len(calls) :
           i + 2 * max_calls - 1 <= Len(calls) =>
               calls[i + 2 * max_calls - 1][2] - calls[i][1] >= period_seconds

\* 2 * max_calls calls back to back (each begins when the one before returns),
\* of which one found the window full
C10_Witness ==
    /\ Len(calls) >= 2 * max_calls
    /\ \A k \in 2..(2 * max_calls) : calls[k][1] = calls[k - 1][2]
    /\ \E k \in 1..(2 * max_calls) : calls[k][3]

-----------------------------------------------------------------------------
(* C11: a hung request cannot starve the schedule. A request that never    *)
(* receives a response is abandoned: the main thread does not stay in it   *)
(* for ever, it comes back to the loop of start().                         *)
C11_HungRequestAbandoned ==
    (pc = "hung") ~> (pc = "idle")

-----------------------------------------------------------------------------
(* C12: every request is gated. In the log of a cycle's calls every        *)
(* requests.get comes right after a rate_limiter.wait() of its own: the    *)
(* log never begins with a request and never holds two requests in a row.  *)
C12_EveryRequestGated ==
    \A k \in 1..Len(api_calls) :
        api_calls[k] = "get" => (k > 1 /\ api_calls[k - 1] = "wait")

\* a cycle has made the history request of both tokens and the current-price
\* request, and is in its check loop
C12_Witness ==
    /\ pc = "check"
    /\ Cardinality({k \in 1..Len(api_calls) : api_calls[k] = "get"}) = 3
    /\ Len(call_timestamps) >= 3

-----------------------------------------------------------------------------
(* C13: the rate limiter only delays. Every call of wait() (the limiter    *)
(* built with max_calls >= 1) returns, at most period_seconds and the      *)
(* scheduling lag after it began; it appends exactly one timestamp, the    *)
(* time of its return, and the entries it takes from the deque are the     *)
(* oldest ones, each expired when the call began.                          *)
C13_WaitOnlyDelays ==
    [][calls' # calls =>
          LET n == Len(call_timestamps')
              dropped == Len(call_timestamps) - (n - 1)
          IN  /\ Len(calls') = Len(calls) + 1
              /\ n >= 1 /\ dropped >= 0
              /\ call_timestamps'[n] = now'
              /\ \A i \in 1..(n - 1) : call_timestamps'[i] = call_timestamps[dropped + i]
              /\ \A i \in 1..dropped : call_timestamps[i] <= now - period_seconds
              /\ now' >= now
              /\ now' - now <= period_seconds + MaxLag]_vars

\* a call that had to sleep has returned, an earlier call pruned an expired
\* timestamp, and the deque holds the timestamp of the last return
C13_Witness ==
    /\ \E k \in 1..Len(calls) : calls[k][3] /\ calls[k][2] > calls[k][1]
    /\ Len(call_timestamps) < Len(calls)
    /\ call_timestamps # <<>>
    /\ call_timestamps[Len(call_timestamps)] = calls[Len(calls)][2]

-----------------------------------------------------------------------------
(* C14: the insufficient-data boundary of the RSI. calculate_rsi returns   *)
(* None for every series of fewer than period + 1 points; and a token with *)
(* fewer than period stored points gets no RSI number and no alert in the  *)
(* check loop, where the series is the stored rows and one current point.  *)
C14_InsufficientData ==
    \A t \in TokenIds :
        LET stored == get_historical_prices_from_db(t, FALSE)
            current == <<<<ToMillis(now), 1>>>>
        IN  /\ \A n \in 0..Len(stored) :
                   n < RsiPeriod + 1 =>
                       calculate_rsi(SubSeq(stored, 1, n), RsiPeriod) = RsiNone
            /\ Len(stored) < RsiPeriod =>
                   /\ calculate_rsi(stored \o current, RsiPeriod) = RsiNone
                   /\ rsi_value[t][1] \in {"unset", "none"}
                   /\ t \notin alerts

\* a token with exactly period - 1 stored points (one short of enough) has been
\* through the check loop: calculate_rsi was called for it and returned None
C14_Witness ==
    \E t \in TokenIds :
        /\ Len(db[t]) = RsiPeriod - 1
        /\ rsi_value[t] = RsiNone
        /\ t \notin alerts

-----------------------------------------------------------------------------
(* C15: the zero-loss case of the RSI. When calculate_rsi has been called  *)
(* in the check loop on a series of at least period + 1 points whose       *)
(* smoothed average loss is 0, it has returned 100.00, never a NaN.        *)
C15_ZeroLoss ==
    \A t \in TokenIds :
        (t \in DOMAIN current_prices /\ rsi_value[t][1] \in {"num", "nan"}) =>
            LET stored == get_historical_prices_from_db(t, FALSE)
                all_prices == stored \o <<<<ToMillis(now), current_prices[t]>>>>
            IN  (/\ Len(all_prices) >= RsiPeriod + 1
                 /\ Ewm(Losses(all_prices), Len(all_prices), RsiPeriod) = 0) =>
                    rsi_value[t] = RsiNum(100 * 100)

-----------------------------------------------------------------------------
(* C16: monotonic read. For every token, get_historical_prices_from_db     *)
(* returns the stored rows of the token, each once, in strictly ascending  *)
(* order of their timestamps.                                              *)
C16_MonotonicRead ==
    \A t \in TokenIds :
        LET prices == get_historical_prices_from_db(t, FALSE)
        IN  /\ Len(prices) = Len(db[t])
            /\ \A i \in 1..Len(db[t]) :
                   \E k \in 1..Len(prices) :
                       prices[k] = <<ToMillis(db[t][i][1]), db[t][i][2]>>
            /\ \A i, j \in 1..Len(prices) : i < j => prices[i][1] < prices[j][1]

\* the check loop has read, and used, a series longer than the days of the
\* initial load
C16_Witness ==
    /\ pc = "check"
    /\ \E t \in TokenIds :
         /\ Len(db[t]) >= InitialDays + 1
         /\ rsi_value[t][1] \in {"num", "nan"}

-----------------------------------------------------------------------------
(* C17: the check phase does not write. No step taken from the current-    *)
(* price fetch on (lines 207-239) changes the table or the open            *)
(* transaction: the current point the RSI is computed with is not stored.  *)
C17_CheckPhaseReadsOnly ==
    [][(pc = "current" \/ pc = "check") => (db' = db /\ txn' = txn)]_vars

\* the check loop has computed an RSI with a current point stamped now, and the
\* table holds rows of the token but none with that timestamp
C17_Witness ==
    /\ pc = "check"
    /\ \E t \in TokenIds :
         /\ rsi_value[t][1] = "num"
         /\ db[t] # <<>>
         /\ ~HasKey(db[t], now)

-----------------------------------------------------------------------------
-----------------------------------------------------------------------------
(* C19: full refresh per run, as the class docstring has it. After every   *)
(* completed refresh the table of a token holds only points of the answer  *)
(* fetched for it in this run: what was stored before has been deleted.    *)
C19_FullRefreshPerRun ==
    refresh = "complete" =>
        \A t \in TokenIds :
            \A i \in 1..Len(db[t]) : db[t][i][1] \in fetched[t][2]

-----------------------------------------------------------------------------
(* C20: refresh atomicity. The table changes only when a refresh phase     *)
(* completes, and then by all the rows of its transaction at once; a       *)
(* refresh phase ended by an exception leaves the table as it was, with    *)
(* every row of the earlier cycles, and nothing of its own pending.        *)
C20_RefreshAtomicity ==
    [][/\ db' # db =>
            /\ refresh' = "complete"
            /\ \A t \in TokenIds : db'[t] = db[t] \o txn[t]
       /\ (refresh' = "net_error" \/ refresh' = "db_error") =>
            (db' = db /\ txn' = NoRows)]_vars

\* a refresh phase that had inserted new rows for a token was ended by an
\* exception: none of these rows is stored, the rows of an earlier cycle are
C20_Witness ==
    /\ refresh \in {"net_error", "db_error"}
    /\ txn = NoRows
    /\ \E t \in TokenIds :
         /\ fetched[t][1] = "ok" /\ fetched[t][2] # {}
         /\ \A ts \in fetched[t][2] : ~HasKey(db[t], ts)
         /\ db[t] # <<>>

-----------------------------------------------------------------------------
(* C21: no current prices, no check. The check loop is entered only with a *)
(* non-empty mapping of current prices; a cycle whose current-price fetch  *)
(* raised or answered with an empty mapping returns at once: no RSI was or *)
(* is computed, no alert sent, the table stays as the refresh phase left   *)
(* it, nothing is in flight any more and the hourly job stays armed (a     *)
(* scheduled run is rearmed an hour after the return).                     *)
C21_EmptyPricesSkipCheck ==
    [][/\ pc' = "check" => current_prices' # <<>>
       /\ (rsi_value' # NoRsi \/ alerts' # {}) => pc' = "check"
       /\ (check_skipped' /\ ~check_skipped) =>
            /\ pc = "current" /\ pc' = "idle"
            /\ rsi_value = NoRsi /\ alerts = {}
            /\ rsi_value' = NoRsi /\ alerts' = {}
            /\ db' = db
            /\ inflight' = 0
            /\ jobs' # <<>>
            /\ scheduled_run => jobs'[1] = now' + Hour]_vars

\* a scheduled cycle whose refresh phase had stored rows was ended by an empty
\* or failed current-price fetch: the rows are stored, the next run is armed
C21_Witness ==
    /\ check_skipped /\ pc = "idle"
    /\ scheduled_run
    /\ \E t \in TokenIds : HasKey(db[t], now)
    /\ jobs = <<now + Hour>>

-----------------------------------------------------------------------------
(* C22: the skip rule of the incremental refresh. When the refresh loop    *)
(* handles a token whose newest stored timestamp is `last`:                *)
(*   - rows stored and less than a whole day since `last`: no wait(), no   *)
(*     request, no insert;                                                 *)
(*   - no row stored: the days of the initial load are requested;          *)
(*   - otherwise the whole days since `last` are requested;                *)
(* and of a fetched answer exactly the points newer than `last` are        *)
(* inserted.                                                               *)

\* the refresh loop handles token t in this step
Handled(t) == pc = "update" /\ fetched[t][1] = "none" /\ fetched'[t][1] # "none"

\* the timestamps of an answer for `days` days received at time t
AnswerTimestamps(days, t) ==
    {((t \div HoursPerDay) - k) * HoursPerDay : k \in 0..(days - 1)} \cup {t}

SkipRule(t) ==
    LET last == MaxTimestamp(db[t])
        elapsed == (now - last) \div HoursPerDay
        days == IF last = 0 THEN InitialDays ELSE elapsed
    IN  IF last > 0 /\ elapsed <= 0
        THEN /\ fetched'[t][1] = "uptodate"
             /\ api_calls' = api_calls
             /\ call_timestamps' = call_timestamps
             /\ txn' = txn
        ELSE /\ fetched'[t][1] \in {"ok", "status", "error", "hang"}
             /\ api_calls' = api_calls \o <<"wait", "get">>
             /\ fetched'[t][1] = "ok" =>
                    fetched'[t][2] = {ts \in AnswerTimestamps(days, now') : ts > last}
             /\ \A i \in 1..Len(txn'[t]) : txn'[t][i][1] > last

C22_SkipRule ==
    [][\A t \in TokenIds : Handled(t) => SkipRule(t)]_vars

\* the same rule for the steps of a cycle in which no store operation has failed
\* (the read of the newest timestamp among them): it holds
C22_SkipRuleReadOk ==
    [][\A t \in TokenIds : (Handled(t) /\ ~store_failed') => SkipRule(t)]_vars

-----------------------------------------------------------------------------
(* C23: the retry loop of get_token_historical_price. For every token of   *)
(* the watch list at most retries + 1 = 3 requests are made and none       *)
(* follows a success; a token whose attempts all failed has the empty list *)
(* as its entry and the loop goes on to the next token: a token is         *)
(* requested only after every token before it has its entry, and when the  *)
(* function returns every token was requested and has its entry in the     *)
(* returned state, the prices fetched if an attempt succeeded, the empty   *)
(* list if all 3 failed.                                                   *)

\* the positions in the log of the requests made for a token
RequestsFor(token) ==
    {i \in 1..Len(requests_log) : requests_log[i][1] = token}

FailedRequestsFor(token) ==
    {i \in RequestsFor(token) : requests_log[i][2] \in {"status", "error"}}

C23_RetryLoop ==
    /\ \A k \in 1..Len(token_watch_list) :
         LET token == token_watch_list[k]
             made == RequestsFor(token)
         IN  /\ Cardinality(made) <= retries + 1
             /\ \A i \in made : requests_log[i][2] = "ok" => \A j \in made : j <= i
             /\ made # {} =>
                   \A h \in 1..(k - 1) :
                       token_watch_list[h] \in DOMAIN token_historical_prices
             /\ Cardinality(FailedRequestsFor(token)) = retries + 1 =>
                   /\ token \in DOMAIN token_historical_prices
                   /\ token_historical_prices[token] = <<>>
                   /\ token_idx > k
    /\ agent_pc = "returned" =>
         /\ DOMAIN state.token_historical_prices = {token_watch_list[k] : k \in 1..Len(token_watch_list)}
         /\ \A k \in 1..Len(token_watch_list) :
              LET token == token_watch_list[k]
                  made == RequestsFor(token)
              IN  /\ made # {}
                  /\ \/ \E i \in made :
                           /\ requests_log[i][2] = "ok"
                           /\ state.token_historical_prices[token] = requests_log[i][3]
                     \/ /\ Cardinality(FailedRequestsFor(token)) = retries + 1
                        /\ state.token_historical_prices[token] = <<>>

\* the function has returned: the first token failed three times and has the
\* empty list, the second succeeded at its second attempt, the third at once
C23_Witness ==
    /\ agent_pc = "returned"
    /\ Cardinality(FailedRequestsFor(token_watch_list[1])) = retries + 1
    /\ state.token_historical_prices[token_watch_list[1]] = <<>>
    /\ Cardinality(RequestsFor(token_watch_list[2])) = 2
    /\ state.token_historical_prices[token_watch_list[2]] # <<>>
    /\ Cardinality(RequestsFor(token_watch_list[3])) = 1

=============================================================================
